---- MODULE Spec2Model ----
(***************************************************************************)
(* Model of numerical_analysis_methods/iterativemethods/base_method.py:    *)
(* the contraction coefficients, the choice of the distance metric, the    *)
(* error estimate and the loop of solve.                                   *)
(*                                                                         *)
(* Numbers.  A real number of the program is modelled exactly, not as a    *)
(* float: a rational is the pair <<n, d>> with d > 0 in lowest terms.  A   *)
(* distance or an error estimate is a non-negative real that may be a      *)
(* square root (math.sqrt in _metric_three_distance); it is stored as the  *)
(* rational value of its SQUARE ("squared form").  Squaring is strictly    *)
(* increasing on the non-negative reals, so every comparison the program   *)
(* makes between two such values is the comparison of their squares.       *)
(***************************************************************************)
EXTENDS Integers, Sequences, FiniteSets, TLC

(* ---------------------------------------------------------------- bounds *)
\* Dimension n = len(A) of the systems explored.
N == 2
\* The iteration cap, scaled down from the program's 1_000_000
\* (base_method.py line 17) so that the capped runs can be explored.
MAX_ITERATIONS_COUNT == 3
\* Largest iter_num the estimator is applied to in SpecEst.
MaxK == 4

(* ------------------------------------------------------------- rationals *)
\* Each operation binds the values of its arguments once (a \in {p}), so
\* that a nested expression is evaluated once per use and not once per
\* occurrence of the parameter.
Only(S) == CHOOSE r \in S : TRUE

Abs(i) == IF i < 0 THEN -i ELSE i

RECURSIVE GCD(_, _)
GCD(a, b) == IF b = 0 THEN a ELSE Only({GCD(b, r) : r \in {a % b}})

\* n / d in lowest terms with a positive denominator.
Norm(n, d) ==
    Only({<<(IF j < 0 THEN -i ELSE i) \div GCD(Abs(i), Abs(j)),
            Abs(j) \div GCD(Abs(i), Abs(j))>> : i \in {n}, j \in {d}})

Zero == <<0, 1>>
One == <<1, 1>>

\* On values; common factors are divided out before products are formed.
AddV(a, b, g) ==
    Norm(a[1] * (b[2] \div g) + b[1] * (a[2] \div g), (a[2] \div g) * b[2])
MulV(a, b, g, h) ==
    Norm((a[1] \div g) * (b[1] \div h), (a[2] \div h) * (b[2] \div g))
LtV(a, b, g) == a[1] * (b[2] \div g) < b[1] * (a[2] \div g)
LeV(a, b, g) == a[1] * (b[2] \div g) <= b[1] * (a[2] \div g)

RAdd(p, q) ==
    Only({AddV(a, b, GCD(a[2], b[2])) : a \in {p}, b \in {q}})
RNeg(p) == Only({<<-a[1], a[2]>> : a \in {p}})
RSub(p, q) == RAdd(p, RNeg(q))
RMul(p, q) ==
    Only({MulV(a, b, GCD(Abs(a[1]), b[2]), GCD(Abs(b[1]), a[2])) :
            a \in {p}, b \in {q}})
RInv(p) == Only({Norm(a[2], a[1]) : a \in {p}})
RDiv(p, q) == RMul(p, RInv(q))
RLt(p, q) == \E a \in {p}, b \in {q} : LtV(a, b, GCD(a[2], b[2]))
RLe(p, q) == \E a \in {p}, b \in {q} : LeV(a, b, GCD(a[2], b[2]))
RAbs(p) == Only({<<Abs(a[1]), a[2]>> : a \in {p}})

\* alpha ** k; Python gives 0.0 ** 0 = 1.0, as the base case does.
RECURSIVE RPow(_, _)
RPow(p, k) == IF k = 0 THEN One ELSE RMul(p, RPow(p, k - 1))

\* The squared form of a non-negative rational.
Sq(p) == Only({RMul(a, a) : a \in {p}})

\* Sum and maximum of f[1..n].
RECURSIVE RSum(_, _)
RSum(f, n) == IF n = 0 THEN Zero ELSE RAdd(RSum(f, n - 1), f[n])

RECURSIVE RMax(_, _)
RMax(f, n) ==
    IF n = 1 THEN f[1]
    ELSE Only({IF RLt(m, e) THEN e ELSE m : m \in {RMax(f, n - 1)}, e \in {f[n]}})

Idx == 1 .. N

\* abs(B): entrywise absolute value.
AbsMatrix(M) == [i \in Idx |-> [j \in Idx |-> RAbs(M[i][j])]]

(* --------------------------------------------------- norm coefficients *)
\* Variant: the entries are summed without abs(B).
metric_one_coefficient_NoAbs(M) ==
    LET row_sums == [i \in Idx |-> RSum(M[i], N)]
    IN  RMax(row_sums, N)

metric_one_coefficient(M) ==
    LET A == AbsMatrix(M)
        row_sums == [i \in Idx |-> RSum(A[i], N)]
    IN  RMax(row_sums, N)

\* col_sums += B[i, j] adds the scalar to EVERY element of col_sums
\* (numpy broadcasting), so after the two loops each element holds the sum
\* of all absolute entries of B.
metric_two_coefficient(M) ==
    LET A == AbsMatrix(M)
        total == RSum([i \in Idx |-> RSum(A[i], N)], N)
        col_sums == [k \in Idx |-> total]
    IN  RMax(col_sums, N)

metric_three_coefficient(M) ==
    RSum([i \in Idx |-> RSum([j \in Idx |-> RMul(M[i][j], M[i][j])], N)], N)

(* ------------------------------------------------------ distance metrics *)
\* Each returns the distance in squared form.
Diff(u, v) == [i \in Idx |-> RSub(u[i], v[i])]

_metric_one_distance(u, v) ==
    Sq(RMax([i \in Idx |-> RAbs(Diff(u, v)[i])], N))

_metric_two_distance(u, v) ==
    Sq(RSum([i \in Idx |-> RAbs(Diff(u, v)[i])], N))

_metric_three_distance(u, v) ==
    RSum([i \in Idx |-> RMul(Diff(u, v)[i], Diff(u, v)[i])], N)

\* A distance function is named by its number 1, 2 or 3.
Distance(m, u, v) ==
    CASE m = 1 -> _metric_one_distance(u, v)
      [] m = 2 -> _metric_two_distance(u, v)
      [] m = 3 -> _metric_three_distance(u, v)

\* Python's None, and the value of a local that is not bound yet.  Both are
\* tuples, as every other value of these variables is.
None == <<>>
Unbound == <<"unbound">>
\* calculate_distance before line 117 binds it.
NoDistance == 0

_choose_distance_metric(M) ==
    IF RLt(metric_one_coefficient(M), One)
    THEN <<metric_one_coefficient(M), 1>>
    ELSE IF RLt(metric_two_coefficient(M), One)
    THEN <<metric_two_coefficient(M), 2>>
    ELSE IF RLt(metric_three_coefficient(M), One)
    THEN <<metric_three_coefficient(M), 3>>
    ELSE None

(* -------------------------------------------------------- error estimate *)
\* Arguments: rational alpha, distances in squared form; the result is in
\* squared form.
\* Variant: alpha * iter_num for alpha ** iter_num.
_estimate_error_TimesK(a, fd, ld, k) ==
    LET estimation_one == RMul(Sq(RDiv(RMul(a, <<k, 1>>), RSub(One, a))), fd)
        estimation_two == RMul(Sq(RDiv(a, RSub(One, a))), ld)
    IN  IF RLt(estimation_one, estimation_two)
        THEN estimation_one ELSE estimation_two

_estimate_error(a, fd, ld, k) ==
    LET estimation_one == RMul(Sq(RDiv(RPow(a, k), RSub(One, a))), fd)
        estimation_two == RMul(Sq(RDiv(a, RSub(One, a))), ld)
    IN  IF RLt(estimation_one, estimation_two)
        THEN estimation_one ELSE estimation_two

\* e > p for an estimate e in squared form and a rational p.
Exceeds(e, p) == RLt(p, Zero) \/ RLt(Sq(p), e)

(* ---------------------------------------------------------- update rules *)
\* y = B x + c from the unmodified prior iterate.
simple_iteration(M, u, v) ==
    [i \in Idx |-> RAdd(RSum([j \in Idx |-> RMul(M[i][j], u[j])], N), v[i])]

\* Component i uses the already updated components 1 .. i-1.
RECURSIVE SeidelUpTo(_, _, _, _)
SeidelUpTo(M, u, v, i) ==
    IF i = 0 THEN <<>>
    ELSE Only({Append(prev,
                      RAdd(RSum([j \in Idx |->
                                   RMul(M[i][j],
                                        IF j < i THEN prev[j] ELSE u[j])], N),
                           v[i])) :
                 prev \in {SeidelUpTo(M, u, v, i - 1)}})

seidel(M, u, v) == SeidelUpTo(M, u, v, N)

\* A callable that ignores B: y = 2 x + c.
doubling(M, u, v) == [i \in Idx |-> RAdd(RMul(<<2, 1>>, u[i]), v[i])]

Rules == {"simple", "seidel", "doubling"}

ApplyRule(r, M, u, v) ==
    CASE r = "simple" -> simple_iteration(M, u, v)
      [] r = "seidel" -> seidel(M, u, v)
      [] r = "doubling" -> doubling(M, u, v)

(* ---------------------------------------------------------------- inputs *)
\* B[1][1] is drawn from -1/2, 0, 1/2 and the other entries from 0, 1/2;
\* c is the zero vector, the all-ones vector or the first unit vector;
\* precision is -1, 0, 4, 2^-MAX_ITERATIONS_COUNT or its square.
CornerEntries == {<<-1, 2>>, Zero, <<1, 2>>}
OtherEntries == {Zero, <<1, 2>>}
Matrices ==
    {M \in [Idx -> [Idx -> CornerEntries]] :
        \A i, j \in Idx : <<i, j>> # <<1, 1>> => M[i][j] \in OtherEntries}
Vectors ==
    {[i \in Idx |-> Zero], [i \in Idx |-> One],
     [i \in Idx |-> IF i = 1 THEN One ELSE Zero]}
Precisions ==
    {<<-1, 1>>, Zero, <<4, 1>>}
        \cup {<<1, 2 ^ j>> : j \in {MAX_ITERATIONS_COUNT, 2 * MAX_ITERATIONS_COUNT}}

zeros == [i \in Idx |-> Zero]

(* ----------------------------------------------------------------- state *)
VARIABLES
    pc,                 \* INIT, TRANSFORMED, ITERATING, DONE (or ESTIMATE)
    B, c,               \* the transformed system x = B x + c
    precision,
    iteration_method,
    distance_metric,    \* None or <<alpha, distance number>>
    alpha, calculate_distance,
    first_distance, last_distance,
    x, y,
    iter_num,
    est,                \* value of the last _estimate_error call
    invocations         \* number of calls of iteration_method so far

vars == <<pc, B, c, precision, iteration_method, distance_metric, alpha,
          calculate_distance, first_distance, last_distance, x, y, iter_num,
          est, invocations>>

Init ==
    /\ pc = "INIT"
    /\ B \in Matrices
    /\ c \in Vectors
    /\ precision \in Precisions
    /\ iteration_method \in Rules
    /\ distance_metric = Unbound
    /\ alpha = Unbound
    /\ calculate_distance = NoDistance
    /\ first_distance = Unbound
    /\ last_distance = Unbound
    /\ x = Unbound
    /\ y = Unbound
    /\ iter_num = 0            \* no round performed; bound by line 122
    /\ est = Unbound
    /\ invocations = 0

\* Lines 107-108.  B and c are the outputs of st.system_transform.
Transform ==
    /\ pc = "INIT"
    /\ pc' = "TRANSFORMED"
    /\ distance_metric' = _choose_distance_metric(B)
    /\ UNCHANGED <<B, c, precision, iteration_method, alpha,
                   calculate_distance, first_distance, last_distance, x, y,
                   iter_num, est, invocations>>

\* Lines 110-122.  The first candidate is bound once and used three times.
FirstCandidate ==
    /\ pc = "TRANSFORMED"
    /\ \E first \in {ApplyRule(iteration_method, B, zeros, c)} :
        /\ pc' = "ITERATING"
        /\ x' = zeros
        /\ y' = first
        /\ invocations' = invocations + 1
        /\ IF distance_metric = None
           THEN UNCHANGED <<alpha, calculate_distance, first_distance,
                            last_distance>>
           ELSE /\ alpha' = distance_metric[1]
                /\ calculate_distance' = distance_metric[2]
                /\ first_distance' = Distance(distance_metric[2], zeros, first)
                /\ last_distance' = Distance(distance_metric[2], zeros, first)
        /\ iter_num' = 0
        /\ UNCHANGED <<B, c, precision, iteration_method, distance_metric,
                       est>>

\* The value _estimate_error returns in the loop test (lines 124-125); it
\* is not called when distance_metric is None (short circuit).
TestEstimate ==
    IF distance_metric # None
    THEN _estimate_error(alpha, first_distance, last_distance, iter_num)
    ELSE est

\* Variants of the loop test.
\* The raw last distance, not the estimate, is compared with precision.
LoopCondition_RawDistance ==
    /\ \/ /\ distance_metric # None
          /\ Exceeds(last_distance, precision)
       \/ distance_metric = None
    /\ iter_num < MAX_ITERATIONS_COUNT

\* Without a certificate the loop stops once the iterates stop changing.
LoopCondition_StopWhenFixed ==
    /\ \/ /\ distance_metric # None
          /\ Exceeds(_estimate_error(alpha, first_distance, last_distance,
                                     iter_num), precision)
       \/ (distance_metric = None /\ x # y)
    /\ iter_num < MAX_ITERATIONS_COUNT

\* The cap is reached one round early.
LoopCondition_CapOffByOne ==
    /\ \/ /\ distance_metric # None
          /\ Exceeds(_estimate_error(alpha, first_distance, last_distance,
                                     iter_num), precision)
       \/ distance_metric = None
    /\ iter_num < MAX_ITERATIONS_COUNT - 1

\* The cap is tested with <=.
LoopCondition_CapInclusive ==
    /\ \/ /\ distance_metric # None
          /\ Exceeds(_estimate_error(alpha, first_distance, last_distance,
                                     iter_num), precision)
       \/ distance_metric = None
    /\ iter_num <= MAX_ITERATIONS_COUNT

\* The body runs once before the first test (do-while).
LoopCondition_AtLeastOnce ==
    \/ iter_num = 0
    \/ /\ \/ /\ distance_metric # None
             /\ Exceeds(_estimate_error(alpha, first_distance,
                                        last_distance, iter_num), precision)
          \/ distance_metric = None
       /\ iter_num < MAX_ITERATIONS_COUNT

\* Lines 123-127.
LoopCondition ==
    /\ \/ /\ distance_metric # None
          /\ Exceeds(_estimate_error(alpha, first_distance, last_distance,
                                     iter_num), precision)
       \/ distance_metric = None
    /\ iter_num < MAX_ITERATIONS_COUNT

\* Variant of the loop body: x = y is missing, the rule is applied to the
\* old x again.
Round_StaleX ==
    /\ pc = "ITERATING"
    /\ LoopCondition
    /\ \E next \in {ApplyRule(iteration_method, B, x, c)} :
        /\ est' = TestEstimate
        /\ x' = x
        /\ y' = next
        /\ invocations' = invocations + 1
        /\ last_distance' = IF distance_metric # None
                            THEN Distance(calculate_distance, x, next)
                            ELSE last_distance
        /\ iter_num' = iter_num + 1
        /\ UNCHANGED <<pc, B, c, precision, iteration_method,
                       distance_metric, alpha, calculate_distance,
                       first_distance>>

\* Lines 128-134.
Round ==
    /\ pc = "ITERATING"
    /\ LoopCondition
    /\ \E next \in {ApplyRule(iteration_method, B, y, c)} :
        /\ est' = TestEstimate
        /\ x' = y
        /\ y' = next
        /\ invocations' = invocations + 1
        /\ last_distance' = IF distance_metric # None
                            THEN Distance(calculate_distance, y, next)
                            ELSE last_distance
        /\ iter_num' = iter_num + 1
        /\ UNCHANGED <<pc, B, c, precision, iteration_method,
                       distance_metric, alpha, calculate_distance,
                       first_distance>>

\* Line 136.
Return ==
    /\ pc = "ITERATING"
    /\ ~LoopCondition
    /\ est' = TestEstimate
    /\ pc' = "DONE"
    /\ UNCHANGED <<B, c, precision, iteration_method, distance_metric, alpha,
                   calculate_distance, first_distance, last_distance, x, y,
                   iter_num, invocations>>

Next == Transform \/ FirstCandidate \/ Round \/ Return

Spec == Init /\ [][Next]_vars

\* solve is a sequential blocking call: every enabled step is taken.
FairSpec == Spec /\ WF_vars(Next)

(* ------------------------------------------- the estimator on its own *)
\* _estimate_error applied to freely chosen arguments, for k = 0, 1, ...
Alphas == {Zero, <<1, 4>>, <<1, 2>>, <<3, 4>>}
\* Distances 0, 1/2, 1, sqrt(2), 2, 3 in squared form.
Dists == {Zero, <<1, 4>>, One, <<2, 1>>, <<4, 1>>, <<9, 1>>}

EstInit ==
    /\ pc = "ESTIMATE"
    /\ alpha \in Alphas
    /\ first_distance \in Dists
    /\ last_distance \in Dists
    /\ iter_num = 0
    /\ est = _estimate_error(alpha, first_distance, last_distance, 0)
    /\ B = Unbound
    /\ c = Unbound
    /\ precision = Unbound
    /\ iteration_method = Unbound
    /\ distance_metric = Unbound
    /\ calculate_distance = NoDistance
    /\ x = Unbound
    /\ y = Unbound
    /\ invocations = 0

Estimate ==
    /\ pc = "ESTIMATE"
    /\ iter_num < MaxK
    /\ iter_num' = iter_num + 1
    /\ est' = _estimate_error(alpha, first_distance, last_distance,
                              iter_num + 1)
    /\ UNCHANGED <<pc, B, c, precision, iteration_method, distance_metric,
                   alpha, calculate_distance, first_distance, last_distance,
                   x, y, invocations>>

SpecEst == EstInit /\ [][Estimate]_vars

(* ======================================================== the claims *)
\* The quantities the claims speak of, stated from their definitions.
RowSums(M) == {RSum([j \in Idx |-> RAbs(M[i][j])], N) : i \in Idx}
ColumnSums(M) == {RSum([i \in Idx |-> RAbs(M[i][j])], N) : j \in Idx}
Largest(S) == CHOOSE m \in S : \A s \in S : RLe(s, m)
RowSumNorm(M) == Largest(RowSums(M))
ColumnSumNorm(M) == Largest(ColumnSums(M))
SquareSum(M) == RSum([k \in 1 .. N * N |->
                        Sq(M[((k - 1) \div N) + 1][((k - 1) % N) + 1])], N * N)

Certified == distance_metric \notin {None, Unbound}
FirstCandidateOf == ApplyRule(iteration_method, B, zeros, c)

\* estimateError at the returned k, recomputed from the inputs and the last
\* two iterates.
BoundAtReturn ==
    _estimate_error(distance_metric[1],
                    Distance(distance_metric[2], zeros, FirstCandidateOf),
                    Distance(distance_metric[2], x, y),
                    iter_num)

NoCoefficientBelowOne ==
    /\ RLe(One, RowSumNorm(B))
    /\ RLe(One, ColumnSumNorm(B))
    /\ RLe(One, SquareSum(B))

C2_Thm ==
    (pc = "DONE" /\ NoCoefficientBelowOne)
        => /\ distance_metric = None
           /\ iter_num = MAX_ITERATIONS_COUNT
           /\ invocations = MAX_ITERATIONS_COUNT + 1

\* An uncertified run that returned with iterates that had stopped changing.
C2_Witness ==
    /\ pc = "DONE"
    /\ NoCoefficientBelowOne
    /\ x = y
    /\ iter_num = MAX_ITERATIONS_COUNT

\* C3: when the row-sum coefficient of B is < 1, the certificate chosen is
\* that coefficient paired with distance 1, whatever the other coefficients.
C3_Thm ==
    (pc # "INIT" /\ RLt(RowSumNorm(B), One))
        => /\ distance_metric = <<RowSumNorm(B), 1>>
           /\ (pc \in {"ITERATING", "DONE"}
                 => alpha = RowSumNorm(B) /\ calculate_distance = 1)

\* Row-sum coefficient below 1 while the column-sum coefficient is not.
C3_Witness ==
    /\ pc = "ITERATING"
    /\ RLt(Zero, RowSumNorm(B))
    /\ RLt(RowSumNorm(B), One)
    /\ RLe(One, ColumnSumNorm(B))
    /\ distance_metric[2] = 1

\* C4 as stated: the column-sum coefficient is the largest absolute column
\* sum, and when the row-sum coefficient is >= 1 and the largest absolute
\* column sum is < 1 the certificate is that column sum with distance 2.
C4_Claim ==
    pc # "INIT"
        => /\ metric_two_coefficient(B) = ColumnSumNorm(B)
           /\ (RLe(One, RowSumNorm(B)) /\ RLt(ColumnSumNorm(B), One)
                 => distance_metric = <<ColumnSumNorm(B), 2>>)

\* C5 as stated: with precision <= 0 the update rule is never called and
\* the loop is never entered.
C5_Claim ==
    RLe(precision, Zero)
        => /\ invocations = 0
           /\ pc \notin {"ITERATING", "DONE"}

\* C6 as stated: a certified solve (precision > 0) returns
\* iter_num = MAX_ITERATIONS_COUNT if and only if the error bound at return
\* is still > precision.
C6_Original ==
    (pc = "DONE" /\ Certified /\ RLt(Zero, precision))
        => (iter_num = MAX_ITERATIONS_COUNT <=> Exceeds(est, precision))

\* C6 amended: if the error bound at return is still > precision the
\* returned count is MAX_ITERATIONS_COUNT (a smaller count means the bound
\* is <= precision); the count MAX_ITERATIONS_COUNT alone does not tell.
C6_Amended ==
    (pc = "DONE" /\ Certified)
        => /\ est = BoundAtReturn
           /\ (Exceeds(est, precision) => iter_num = MAX_ITERATIONS_COUNT)

\* A certified run that exhausted the cap with its bound above precision.
C6_Witness ==
    /\ pc = "DONE"
    /\ Certified
    /\ RLt(Zero, precision)
    /\ iter_num = MAX_ITERATIONS_COUNT
    /\ Exceeds(est, precision)

\* C7: in SpecEst the value returned is the smaller of
\* (alpha^k / (1 - alpha)) d0 and (alpha / (1 - alpha)) dLast, and it never
\* increases when k grows by one, alpha = 0 and the step 0 -> 1 included.
EstimateA == RDiv(RMul(Sq(RPow(alpha, iter_num)), first_distance),
                  Sq(RSub(One, alpha)))
EstimateB == RDiv(RMul(Sq(alpha), last_distance), Sq(RSub(One, alpha)))

C7_Thm ==
    /\ [](pc = "ESTIMATE"
            => /\ est \in {EstimateA, EstimateB}
               /\ RLe(est, EstimateA)
               /\ RLe(est, EstimateB))
    /\ [][pc = "ESTIMATE" => RLe(est', est)]_vars

\* The estimate after the step from k = 0 to k = 1 with the a-priori bound
\* the smaller one, strictly below its value at k = 0.
C7_Witness ==
    /\ pc = "ESTIMATE"
    /\ iter_num = 1
    /\ est = EstimateA
    /\ RLt(est, _estimate_error(alpha, first_distance, last_distance, 0))

\* C8: a certified solve whose precision is larger than the first-round
\* bound returns iter_num = 0 and the first candidate, the update rule
\* having been called exactly once.
FirstRoundBound ==
    LET d0 == Distance(distance_metric[2], zeros, FirstCandidateOf)
    IN  _estimate_error(distance_metric[1], d0, d0, 0)

PrecisionAboveFirstBound ==
    /\ RLt(Zero, precision)
    /\ RLt(FirstRoundBound, Sq(precision))

C8_Thm ==
    (pc = "DONE" /\ Certified /\ PrecisionAboveFirstBound)
        => /\ iter_num = 0
           /\ y = FirstCandidateOf
           /\ x = zeros
           /\ invocations = 1

\* Such a run, returned, with a first candidate that is not the zero vector
\* and a first-round bound that is not zero.
C8_Witness ==
    /\ pc = "DONE"
    /\ Certified
    /\ PrecisionAboveFirstBound
    /\ RLt(Zero, FirstRoundBound)
    /\ y # zeros

\* C9: every solve eventually returns, converged or capped; iter_num stays
\* within 0 .. MAX_ITERATIONS_COUNT and changes only in a loop round, by
\* exactly 1.
Converged == pc = "DONE" /\ Certified /\ ~Exceeds(est, precision)
Capped == pc = "DONE" /\ iter_num = MAX_ITERATIONS_COUNT

C9_Thm ==
    /\ <>(Converged \/ Capped)
    /\ [](iter_num \in 0 .. MAX_ITERATIONS_COUNT)
    /\ [][/\ (pc = "ITERATING" /\ pc' = "ITERATING")
               => iter_num' = iter_num + 1
          /\ iter_num' # iter_num
               => (pc = "ITERATING" /\ pc' = "ITERATING")]_vars

\* A run with precision <= 0 that reached the cap.
C9_Witness ==
    /\ Capped
    /\ RLe(precision, Zero)
    /\ x # y

\* C10: whenever the loop test is evaluated, x is the update rule applied
\* iter_num times to the zero vector, y is the rule applied to x, the rule
\* has been called iter_num + 1 times, last_distance is the distance of x
\* and y, first_distance that of the zero vector and the first candidate;
\* B, c, alpha, the distance function and first_distance do not change
\* once the loop is entered; the returned y is the (iter_num + 1)-fold
\* application.
RECURSIVE Iterate(_)
Iterate(k) ==
    IF k = 0 THEN zeros
    ELSE Only({ApplyRule(iteration_method, B, u, c) : u \in {Iterate(k - 1)}})

LoopInvariant ==
    /\ x = Iterate(iter_num)
    /\ y = ApplyRule(iteration_method, B, x, c)
    /\ invocations = iter_num + 1
    /\ Certified
         => /\ alpha = distance_metric[1]
            /\ calculate_distance = distance_metric[2]
            /\ last_distance = Distance(calculate_distance, x, y)
            /\ first_distance = Distance(calculate_distance, zeros, Iterate(1))

C10_Thm ==
    /\ [](pc = "ITERATING" => LoopInvariant)
    /\ [](pc = "DONE" => y = Iterate(iter_num + 1))
    /\ [][pc = "ITERATING"
            => UNCHANGED <<B, c, iteration_method, distance_metric, alpha,
                           calculate_distance, first_distance>>]_vars

\* The loop test reached after two rounds of a certified run whose iterates
\* still move.
C10_Witness ==
    /\ pc = "ITERATING"
    /\ Certified
    /\ iter_num = 2
    /\ x # y
    /\ last_distance # first_distance

====
